---- MODULE Spec2Model ----
(***************************************************************************)
(* Model of the evaluation notebook                                        *)
(*   src/ml_engineering/4.3_evaluation_pt.2/evaluation_pt.2.ipynb          *)
(* (stratified train/test split, stratified K-fold, bootstrap loop and     *)
(* percentile confidence interval).                                        *)
(*                                                                         *)
(* Conventions.                                                            *)
(*  - Python positions are 0-based, sequences here are 1-based: record     *)
(*    number p of the notebook is position p+1 here, fold number f of the  *)
(*    notebook is fold f+1 here.                                           *)
(*  - Labels are the values of the binary column 'tasty' (0 or 1).         *)
(*  - A real number is an exact fraction <<numerator, denominator>> with   *)
(*    a positive denominator, kept in lowest terms.                        *)
(*    np.mean is the exception: its sums are rounded to MantissaBits       *)
(*    significant bits, as float64 rounds them to 53.                      *)
(*  - np.random.RandomState(seed) is a deterministic generator: the same   *)
(*    seed gives the same stream of draws.  The Mersenne Twister is        *)
(*    abstracted to a small congruential generator with the same           *)
(*    interface (a state, seeded from an integer, advanced by each draw).  *)
(*  - The calls into the library (train_test_split, StratifiedKFold,       *)
(*    resample, np.percentile, the metric functions) are modelled by what  *)
(*    the called routine computes for the arguments the notebook passes.   *)
(***************************************************************************)
EXTENDS Integers, Sequences, FiniteSets, TLC

VARIABLES
    pc,            \* position in the notebook's top-to-bottom execution
    y,             \* the labels ('tasty') of the data set a cell works on
    random_state,  \* random_state=... of the splitters
    test_size,     \* test_size=..., in tenths (2 is the notebook's 0.2)
    split,         \* result of the first train_test_split: (train_val_df, test_df)
    split2,        \* result of the second train_test_split: (train_df, val_df)
    csv_file,      \* the rows of wine_quality_test.csv
    prev_split,    \* history: the results of the previous run of the split cell
    n_splits,      \* n_splits=... of StratifiedKFold
    test_folds,    \* StratifiedKFold's fold number of every record
    folds,         \* the (train_indices, val_indices) pairs the loop has received
    scaled,        \* history: for every fitted StandardScaler, the records it was
                   \* fit on and the evaluation records it has transformed
    X_test,        \* the feature value of every record of the test set
    y_test,        \* the label of every record of the test set
    pipe,          \* the fitted pipeline (its decision threshold)
    boot_seed,     \* seed = 1337 of the bootstrap cell
    n_resamples,   \* the number of bootstrap iterations (the notebook's 100)
    loop_i,        \* i, the loop variable of the bootstrap loop
    fprs,          \* the list of FPR tuples the loop appends to
    f1s,           \* module-level f1s (set by f1s, precisions, recalls = ...)
    precisions,    \* module-level precisions
    recalls,       \* module-level recalls
    arg_distribution, \* the argument of the call of confidence_intervals
    arg_alpha,     \* the confidence level of that call
    limits,        \* (lower_limit, upper_limit) the call returned
    printed,       \* the numbers of the line the confidence-interval cell prints
    np_random,     \* state of numpy's global generator (random_state=None)
    seeds_used,    \* history: the random_state of every resample call so far
    runs,          \* history: how often the bootstrap cell has been run
    prev_fprs,     \* history: fprs at the end of the previous run of the cell
    workers        \* iterations in progress when the loop is run by workers

splitVars == <<test_size, split, split2, csv_file, prev_split>>
kfoldVars == <<n_splits, test_folds, folds, scaled>>
evalVars == <<X_test, y_test, pipe>>
loopVars == <<boot_seed, n_resamples, loop_i, fprs, np_random, seeds_used, runs, prev_fprs, workers>>
ciVars == <<f1s, precisions, recalls, arg_distribution, arg_alpha, limits, printed>>
bootVars == <<evalVars, loopVars, ciVars>>

vars == <<pc, y, random_state, splitVars, kfoldVars, bootVars>>

----------------------------------------------------------------------------
(* Bounds of the model *)

\* largest number of records of one class in df
MaxClass == 7
\* seeds tried: 1337 .. 1337 + MaxSeedOffset
MaxSeedOffset == 2

----------------------------------------------------------------------------
(* Sequences *)

Range(s) == {s[i] : i \in 1..Len(s)}

RECURSIVE SumSeq(_)
SumSeq(s) == IF s = <<>> THEN 0 ELSE Head(s) + SumSeq(Tail(s))

\* number of positions of s holding v
Count(s, v) == Cardinality({i \in 1..Len(s) : s[i] = v})

NoDuplicates(s) == \A i, j \in 1..Len(s) : i # j => s[i] # s[j]

\* the positions of s holding v, ascending
RECURSIVE PositionsOf(_, _, _)
PositionsOf(s, v, from) ==
    IF from > Len(s) THEN <<>>
    ELSE IF s[from] = v THEN <<from>> \o PositionsOf(s, v, from + 1)
    ELSE PositionsOf(s, v, from + 1)

\* s[idx[1]], s[idx[2]], ...: numpy's fancy indexing / take
Take(s, idx) == [i \in 1..Len(idx) |-> s[idx[i]]]

Repeat(v, n) == [i \in 1..n |-> v]

----------------------------------------------------------------------------
(* The random generator *)

\* one step of the generator
NextRng(s) == (s * 17 + 7) % 61

\* check_random_state(None): numpy's global generator, whatever the seed
RandomStateGlobal(seed) == np_random

\* np.random.RandomState(seed) / check_random_state(seed) for an integer seed
RandomState(seed) == NextRng(seed % 61)

\* RandomState.shuffle: for i in reversed(range(1, n)): j = interval(i); swap
RECURSIVE ShuffleFrom(_, _, _)
ShuffleFrom(arr, i, s) ==
    IF i < 2 THEN [out |-> arr, rng |-> s]
    ELSE LET j == (s % i) + 1
         IN ShuffleFrom([arr EXCEPT ![i] = arr[j], ![j] = arr[i]], i - 1, NextRng(s))

\* rng.permutation(arr)
Permutation(arr, s) == ShuffleFrom(arr, Len(arr), s)

\* rng.choice(inds, size=k, replace=False): inds[permutation(len(inds))[:k]]
Choice(inds, k, s) ==
    LET p == Permutation([i \in 1..Len(inds) |-> i], s)
    IN [out |-> {inds[p.out[i]] : i \in 1..k}, rng |-> p.rng]

----------------------------------------------------------------------------
(* train_test_split(df, test_size=..., random_state=..., stratify=df['tasty']) *)

Max(S) == CHOOSE x \in S : \A z \in S : z <= x

Min2(a, b) == IF a <= b THEN a ELSE b

\* np.unique(y): the labels that occur, ascending
Classes(yy) == LET present == Range(yy)
               IN (IF 0 \in present THEN <<0>> ELSE <<>>) \o
                  (IF 1 \in present THEN <<1>> ELSE <<>>)

\* np.bincount(y_indices): the number of records of every class that occurs
ClassCounts(yy) == LET cl == Classes(yy) IN [c \in 1..Len(cl) |-> Count(yy, cl[c])]

\* the loop of _approximate_mode over the remainders, largest first: the
\* classes with the largest left-over fraction get one more draw each, ties
\* broken by rng.choice.  rem holds the numerators of the remainders over
\* their common denominator.
RECURSIVE AddByRemainder(_, _, _, _, _)
AddByRemainder(floored, rem, need_to_add, values, s) ==
    IF need_to_add = 0 \/ values = {} THEN [out |-> floored, rng |-> s]
    ELSE LET value == Max(values)
             inds == PositionsOf(rem, value, 1)
             add_now == Min2(Len(inds), need_to_add)
             ch == Choice(inds, add_now, s)
             added == [c \in 1..Len(floored) |->
                          floored[c] + (IF c \in ch.out THEN 1 ELSE 0)]
         IN AddByRemainder(added, rem, need_to_add - add_now, values \ {value}, ch.rng)

\* _approximate_mode(class_counts, n_draws, rng): n_draws split over the
\* classes in proportion to class_counts, continuous = counts / sum * n_draws
ApproximateMode(class_counts, n_draws, s) ==
    LET total == SumSeq(class_counts)
        floored == [c \in 1..Len(class_counts) |-> (class_counts[c] * n_draws) \div total]
        rem == [c \in 1..Len(class_counts) |-> (class_counts[c] * n_draws) % total]
        need_to_add == n_draws - SumSeq(floored)
    IN AddByRemainder(floored, rem, need_to_add, Range(rem), s)

\* PerClass with the test slice starting one record early, so that a record
\* of the train slice is taken again
RECURSIVE PerClassOverlap(_, _, _, _, _, _, _)
PerClassOverlap(yy, n_i, t_i, c, train, test, s) ==
    IF c > Len(n_i) THEN [train |-> train, test |-> test, rng |-> s]
    ELSE LET class_indices == PositionsOf(yy, Classes(yy)[c], 1)
             perm == Permutation(class_indices, s)
         IN PerClassOverlap(yy, n_i, t_i, c + 1,
                     train \o SubSeq(perm.out, 1, n_i[c]),
                     test \o SubSeq(perm.out, n_i[c], n_i[c] + t_i[c] - 1),
                     perm.rng)

\* the per-class loop of StratifiedShuffleSplit._iter_indices: every class's
\* records are permuted, the first n_i[c] go to train, the next t_i[c] to test
RECURSIVE PerClass(_, _, _, _, _, _, _)
PerClass(yy, n_i, t_i, c, train, test, s) ==
    IF c > Len(n_i) THEN [train |-> train, test |-> test, rng |-> s]
    ELSE LET class_indices == PositionsOf(yy, Classes(yy)[c], 1)
             perm == Permutation(class_indices, s)
         IN PerClass(yy, n_i, t_i, c + 1,
                     train \o SubSeq(perm.out, 1, n_i[c]),
                     test \o SubSeq(perm.out, n_i[c] + 1, n_i[c] + t_i[c]),
                     perm.rng)

SplitError == [err |-> TRUE, train |-> <<>>, test |-> <<>>]

\* number of test records for a float test_size given in tenths: ceil(test_size * n)
NTest(tenths, n) == (tenths * n + 9) \div 10

\* StratifiedShuffleSplit(test_size=n_test, train_size=n_train,
\* random_state=seed).split(X, y), first (only) split
StratifiedShuffleSplit(yy, n_train, n_test, seed) ==
    LET class_counts == ClassCounts(yy)
        n_classes == Len(class_counts)
    IN IF \E c \in 1..n_classes : class_counts[c] < 2 THEN SplitError
       ELSE IF n_train < n_classes \/ n_test < n_classes THEN SplitError
       ELSE LET n_i == ApproximateMode(class_counts, n_train, RandomState(seed))
                remaining == [c \in 1..n_classes |-> class_counts[c] - n_i.out[c]]
                t_i == ApproximateMode(remaining, n_test, n_i.rng)
                pcl == PerClass(yy, n_i.out, t_i.out, 1, <<>>, <<>>, t_i.rng)
                train == Permutation(pcl.train, pcl.rng)
                test == Permutation(pcl.test, train.rng)
            IN [err |-> FALSE, train |-> train.out, test |-> test.out]

\* train_test_split without stratify= (the notebook's first, unstratified
\* cell): ShuffleSplit, the first n_test records of one permutation are the
\* test part, the next n_train the train part
TrainTestSplitUnstratified(yy, tenths, seed) ==
    LET n == Len(yy)
        n_test == NTest(tenths, n)
        n_train == n - n_test
    IN IF tenths <= 0 \/ tenths >= 10 THEN SplitError
       ELSE IF n_train = 0 THEN SplitError
       ELSE LET perm == Permutation([i \in 1..n |-> i], RandomState(seed))
            IN [err |-> FALSE,
                train |-> SubSeq(perm.out, n_test + 1, n),
                test |-> SubSeq(perm.out, 1, n_test)]

\* train_test_split with a test_size outside (0, 1) brought to the nearest of
\* 0.1 and 0.9 instead of rejected
TrainTestSplitClamped(yy, tenths, seed) ==
    LET n == Len(yy)
        clamped == IF tenths <= 0 THEN 1 ELSE IF tenths >= 10 THEN 9 ELSE tenths
        n_test == NTest(clamped, n)
        n_train == n - n_test
    IN IF n_train = 0 THEN SplitError
       ELSE StratifiedShuffleSplit(yy, n_train, n_test, seed)

\* train_test_split(df, test_size=tenths/10, random_state=seed, stratify=yy):
\* the records (as positions of df) of the train and of the test part, or a
\* ValueError
TrainTestSplit(yy, tenths, seed) ==
    LET n == Len(yy)
        n_test == NTest(tenths, n)
        n_train == n - n_test
    IN IF tenths <= 0 \/ tenths >= 10 THEN SplitError
       ELSE IF n_train = 0 THEN SplitError
       ELSE StratifiedShuffleSplit(yy, n_train, n_test, seed)

\* tasty_ratio(df) of the part of df made of the records idx, as a fraction
\* <<n_tasty, len>> (not reduced); the notebook divides, so idx is not empty
NTasty(yy, idx) == Count(Take(yy, idx), 1)

----------------------------------------------------------------------------
(* The stratification cells *)

\* labels of a data set with c0 records of class 0 and c1 of class 1
MakeY(c0, c1, layout) ==
    IF layout = "zeros_first" THEN Repeat(0, c0) \o Repeat(1, c1)
    ELSE IF layout = "ones_first" THEN Repeat(1, c1) \o Repeat(0, c0)
    ELSE [i \in 1..(c0 + c1) |->
            IF i <= 2 * Min2(c0, c1) THEN i % 2
            ELSE IF c0 > c1 THEN 0 ELSE 1]

Layouts == {"zeros_first", "ones_first", "alternating"}

Datasets == {MakeY(c0, c1, l) : c0 \in 0..MaxClass, c1 \in 0..MaxClass, l \in Layouts}

TestSizes == (0 - 1)..11

Seeds == 1337..(1337 + MaxSeedOffset)

NoSplit == [err |-> FALSE, train |-> <<>>, test |-> <<>>]

\* the cells of the bootstrap have not run: nothing of theirs is defined yet
BootNotRun ==
    /\ X_test = <<>> /\ y_test = <<>> /\ pipe = 0
    /\ boot_seed = 0 /\ n_resamples = 0 /\ loop_i = 0 /\ fprs = <<>>
    /\ np_random = 0 /\ seeds_used = <<>> /\ runs = 0 /\ prev_fprs = <<>>
    /\ workers = {}
    /\ f1s = <<>> /\ precisions = <<>> /\ recalls = <<>>
    /\ arg_distribution = <<>> /\ arg_alpha = <<0, 1>> /\ limits = <<>>
    /\ printed = <<>>

InitSplit ==
    /\ pc = "split_test"
    /\ y \in Datasets
    /\ test_size \in TestSizes
    /\ random_state \in Seeds
    /\ split = NoSplit
    /\ split2 = NoSplit
    /\ csv_file = <<>>
    /\ prev_split = <<>>
    /\ n_splits = 0
    /\ test_folds = <<>>
    /\ folds = <<>>
    /\ scaled = <<>>
    /\ BootNotRun

\* train_val_df, test_df = train_test_split(df, ..., stratify=df['tasty'])
SplitTest ==
    /\ pc = "split_test"
    /\ split' = TrainTestSplit(y, test_size, random_state)
    /\ pc' = IF split'.err THEN "raised" ELSE "split_val"
    /\ UNCHANGED <<y, test_size, random_state, split2, csv_file, prev_split, kfoldVars, bootVars>>

\* train_df, val_df = train_test_split(train_val_df, ...,
\* stratify=train_val_df['tasty']); the parts are kept as records of df
SplitVal ==
    /\ pc = "split_val"
    /\ LET r == TrainTestSplit(Take(y, split.train), test_size, random_state)
       IN split2' = [err |-> r.err,
                     train |-> Take(split.train, r.train),
                     test |-> Take(split.train, r.test)]
    /\ pc' = IF split2'.err THEN "raised" ELSE "split_done"
    /\ UNCHANGED <<y, test_size, random_state, split, csv_file, prev_split, kfoldVars, bootVars>>

NextSplit == SplitTest \/ SplitVal

SpecSplit == InitSplit /\ [][NextSplit]_vars

----------------------------------------------------------------------------
(* Properties of the stratified split *)

Abs(x) == IF x < 0 THEN 0 - x ELSE x

\* df as the list of its records
AllRecords == [i \in 1..Len(y) |-> i]

\* the first split has returned / the second split has returned
SplitTestReturned == pc \in {"split_val", "split_done"} \/ (pc = "raised" /\ ~split.err)
SplitValReturned == pc = "split_done"

\* number of records of class cls among the records idx of df
ClassSize(idx, cls) == Cardinality({i \in 1..Len(idx) : y[idx[i]] = cls})

\* the classes that occur among the records idx
ClassesIn(idx) == {y[idx[i]] : i \in 1..Len(idx)}

\* train and test are disjoint, without repetition, and cover parent
IsPartitionOf(parent, train, test) ==
    /\ NoDuplicates(train \o test)
    /\ Range(train) \cup Range(test) = Range(parent)

\* C1: whenever stratified_split returns, its train and test partitions are
\* disjoint and their union is exactly the index set of the data set split
\* (checked for the split of df and for the split of train_val_df).
C1_SplitIsPartition ==
    /\ SplitTestReturned => IsPartitionOf(AllRecords, split.train, split.test)
    /\ SplitValReturned => IsPartitionOf(split.train, split2.train, split2.test)

\* a split with the notebook's test_size=0.2 has returned two non-empty parts
\* holding both classes
C1_Witness ==
    /\ SplitValReturned
    /\ test_size = 2
    /\ ClassesIn(split.test) = {0, 1}
    /\ ClassesIn(split2.test) = {0, 1}
    /\ Len(split2.train) > Len(split2.test)

\* the test part has ceil(f * n) records, and of every class floor or ceil of
\* (class size * test size / n) records
C7_Sizes(parent, test) ==
    LET n == Len(parent)
        n_test == Len(test)
    IN /\ 10 * n_test >= test_size * n
       /\ 10 * (n_test - 1) < test_size * n
       /\ \A cls \in ClassesIn(parent) :
             Abs(ClassSize(test, cls) * n - ClassSize(parent, cls) * n_test) < n

\* C7 (amended): stratified_split puts ceil(f * |D|) indices into the test
\* partition and the rest into train; every class group gives floor or ceil of
\* group_size * |test| / |D| of them, which need not be round(f * group_size).
C7_TestSizeIsCeilAndProportional ==
    /\ SplitTestReturned => C7_Sizes(AllRecords, split.test)
    /\ SplitValReturned => C7_Sizes(split.train, split2.test)

\* every class group gives a nearest integer of f * group_size
C7_RoundPerClass(parent, test) ==
    \A cls \in ClassesIn(parent) :
        2 * Abs(10 * ClassSize(test, cls) - test_size * ClassSize(parent, cls)) <= 10

\* C7 (as claimed): stratified_split puts round(f * group_size) indices of each
\* class group into the test partition.
C7_Original ==
    SplitTestReturned => C7_RoundPerClass(AllRecords, split.test)

\* a split has returned in which a class group gave a number of test records
\* that is no nearest integer of f * group_size
C7_Witness ==
    /\ SplitTestReturned
    /\ ClassesIn(AllRecords) = {0, 1}
    /\ ~C7_RoundPerClass(AllRecords, split.test)

\* |ratio(test) - ratio(parent)| * bound_den < 1, ratios of the positive class
RatioCloserThan(parent, test, bound_den) ==
    Abs(ClassSize(test, 1) * Len(parent) - ClassSize(parent, 1) * Len(test)) * bound_den
        < Len(parent) * Len(test)

RatioWithin(parent, test, bound_den) ==
    Abs(ClassSize(test, 1) * Len(parent) - ClassSize(parent, 1) * Len(test)) * bound_den
        <= Len(parent) * Len(test)

\* size of the smallest class among the records idx
MinClassSize(idx) ==
    CHOOSE m \in {ClassSize(idx, cls) : cls \in ClassesIn(idx)} :
        \A cls \in ClassesIn(idx) : m <= ClassSize(idx, cls)

\* C8 (amended): the positive-class ratio of the test partition differs from
\* the ratio r of the data set split by less than 1 / |test partition|.
C8_RatioWithinOneTestRecord ==
    /\ SplitTestReturned => RatioCloserThan(AllRecords, split.test, Len(split.test))
    /\ SplitValReturned => RatioCloserThan(split.train, split2.test, Len(split2.test))

\* C8 (as claimed): the positive-class ratio of the test partition differs
\* from r by at most 1 / min_class_size.
C8_Original ==
    SplitTestReturned => RatioWithin(AllRecords, split.test, MinClassSize(AllRecords))

\* a split of a two-class data set has returned a test partition whose ratio
\* is not the ratio of the data set
C8_Witness ==
    /\ SplitTestReturned
    /\ ClassesIn(AllRecords) = {0, 1}
    /\ ClassSize(split.test, 1) * Len(y) # ClassSize(AllRecords, 1) * Len(split.test)
    /\ ~RatioWithin(AllRecords, split.test, MinClassSize(AllRecords))

\* test_size is no fraction of the open interval (0, 1)
InvalidFraction == test_size <= 0 \/ test_size >= 10

\* C15: the split called with a (float) test_size outside (0, 1), that is 0,
\* 1, a negative value or a value above 1, raises and returns no partition:
\* no record is in a train or test part, and the second split is not run.
C15_InvalidFractionRaises ==
    (pc # "split_test" /\ InvalidFraction) =>
        /\ pc = "raised"
        /\ split = SplitError
        /\ split2 = NoSplit

\* the split of a data set with at least two records of each class, which
\* test_size=0.2 splits, has been called with test_size=1.0 and has raised
C15_Witness ==
    /\ pc = "raised"
    /\ test_size = 10
    /\ ClassesIn(AllRecords) = {0, 1}
    /\ MinClassSize(AllRecords) >= 2
    /\ ~TrainTestSplit(y, 2, random_state).err

\* the data set A,A,A,A,A,A,A,B,B,B (A is label 0, B is label 1) has been
\* split with test_size=0.2
C14_ExampleSplit ==
    /\ SplitTestReturned
    /\ y = <<0, 0, 0, 0, 0, 0, 0, 1, 1, 1>>
    /\ test_size = 2

\* C14: the split of A,A,A,A,A,A,A,B,B,B with test_size=0.2 returns 2 test
\* records, one of them of class B, and 8 train records, two of them of
\* class B (ratio 0.25, the nearest to 0.3 that 8 records allow).
C14_ExampleSizes ==
    C14_ExampleSplit =>
        /\ Len(split.test) = 2 /\ Len(split.train) = 8
        /\ ClassSize(split.test, 1) = 1
        /\ ClassSize(split.train, 1) = 2
        /\ RatioCloserThan(AllRecords, split.train, Len(split.train))

\* the example has been split and the test partition holds a record of each
\* class
C14_Witness ==
    /\ C14_ExampleSplit
    /\ ClassesIn(split.test) = {0, 1}
    /\ Len(split.test) = 2

\* train_df, val_df and test_df are pairwise disjoint and cover df
ThreeWayPartition ==
    /\ NoDuplicates(split2.train \o split2.test \o split.test)
    /\ Range(split2.train) \cup Range(split2.test) \cup Range(split.test) = Range(AllRecords)

\* the number of positive records of part differs from ratio(df) * |part| by
\* less than one record
WithinOneRecord(part) == RatioCloserThan(AllRecords, part, Len(part))

\* C19: after the two splits train_df, val_df and test_df are pairwise
\* disjoint and cover df, and in each of them the number of positive records
\* is within one record of the ratio of df times the size of the part.
C19_ThreeWayStratified ==
    SplitValReturned =>
        /\ ThreeWayPartition
        /\ WithinOneRecord(split.test)
        /\ WithinOneRecord(split2.test)
        /\ WithinOneRecord(split2.train)

\* both splits have returned for a data set of two classes whose ratio none
\* of the three parts can have exactly
C19_Witness ==
    /\ SplitValReturned
    /\ test_size = 2
    /\ ClassesIn(AllRecords) = {0, 1}
    /\ \A part \in {split.test, split2.test, split2.train} :
          /\ ClassesIn(part) = {0, 1}
          /\ ClassSize(part, 1) * Len(y) # ClassSize(AllRecords, 1) * Len(part)

----------------------------------------------------------------------------
(* StratifiedKFold(n_splits=..., random_state=..., shuffle=True).split(X, y) *)

\* the classes in the order of their first record (the order in which
\* _make_test_folds encodes them)
ClassesByFirstRecord(yy) ==
    IF yy = <<>> THEN <<>>
    ELSE <<yy[1]>> \o (IF \E i \in 1..Len(yy) : yy[i] # yy[1] THEN <<1 - yy[1]>> ELSE <<>>)

\* number of records of the classes encoded before class number c
Offset(y_counts, c) == SumSeq(SubSeq(y_counts, 1, c - 1))

\* the allocation every class would get on its own (each class dealt to the
\* folds starting again from the first fold)
AllocationPerClass(y_counts, k, fold, c) ==
    Cardinality({p \in 0..(y_counts[c] - 1) : p % k = fold - 1})

\* each class cut into chunks of ceil(n / k) records, the last folds getting
\* what is left
AllocationChunks(y_counts, k, fold, c) ==
    LET chunk == (y_counts[c] + k - 1) \div k
        left == y_counts[c] - (fold - 1) * chunk
    IN IF left <= 0 THEN 0 ELSE IF left < chunk THEN left ELSE chunk

\* allocation[fold][c] of the classes' records to the test sets: the records
\* sorted by class are dealt to the folds in turn, y_order[i :: n_splits]
Allocation(y_counts, k, fold, c) ==
    Cardinality({p \in Offset(y_counts, c)..(Offset(y_counts, c) + y_counts[c] - 1) :
                    p % k = fold - 1})

\* np.arange(n_splits).repeat(allocation[:, c])
RECURSIVE FoldsForClass(_, _, _, _)
FoldsForClass(y_counts, k, fold, c) ==
    IF fold > k THEN <<>>
    ELSE Repeat(fold, Allocation(y_counts, k, fold, c)) \o
         FoldsForClass(y_counts, k, fold + 1, c)

\* the loop of _make_test_folds over the classes: the class's fold numbers
\* are shuffled and given to the class's records in the order of the records
RECURSIVE AssignFolds(_, _, _, _, _, _, _)
AssignFolds(yy, classes, y_counts, k, c, tf, s) ==
    IF c > Len(classes) THEN tf
    ELSE LET sh == Permutation(FoldsForClass(y_counts, k, 1, c), s)
             where == PositionsOf(yy, classes[c], 1)
             assigned == [p \in 1..Len(yy) |->
                            IF yy[p] = classes[c]
                            THEN sh.out[CHOOSE j \in 1..Len(where) : where[j] = p]
                            ELSE tf[p]]
         IN AssignFolds(yy, classes, y_counts, k, c + 1, assigned, sh.rng)

\* MakeTestFolds raising as soon as one class (not every class) has fewer
\* than k records
MakeTestFoldsAnyClass(yy, k, seed) ==
    LET classes == ClassesByFirstRecord(yy)
        y_counts == [c \in 1..Len(classes) |-> Count(yy, classes[c])]
    IN IF k > Len(yy) THEN [err |-> TRUE, test_folds |-> <<>>]
       ELSE IF \E c \in 1..Len(classes) : k > y_counts[c]
            THEN [err |-> TRUE, test_folds |-> <<>>]
       ELSE [err |-> FALSE,
             test_folds |-> AssignFolds(yy, classes, y_counts, k, 1,
                                        Repeat(0, Len(yy)), RandomState(seed))]

\* StratifiedKFold.split up to the first fold: the checks of split and of
\* _make_test_folds, then the fold number of every record
MakeTestFolds(yy, k, seed) ==
    LET classes == ClassesByFirstRecord(yy)
        y_counts == [c \in 1..Len(classes) |-> Count(yy, classes[c])]
    IN IF k > Len(yy) THEN [err |-> TRUE, test_folds |-> <<>>]
       ELSE IF \A c \in 1..Len(classes) : k > y_counts[c]
            THEN [err |-> TRUE, test_folds |-> <<>>]
       ELSE [err |-> FALSE,
             test_folds |-> AssignFolds(yy, classes, y_counts, k, 1,
                                        Repeat(0, Len(yy)), RandomState(seed))]

\* every record, whatever its fold number (the test mask not taken off)
TrainIndicesAll(tf, fold) == [p \in 1..Len(tf) |-> p]

\* indices[test_index]: the records of the fold, ascending
ValIndices(tf, fold) == PositionsOf(tf, fold, 1)

\* indices[np.logical_not(test_index)]: the other records, ascending
RECURSIVE OtherPositions(_, _, _)
OtherPositions(tf, fold, from) ==
    IF from > Len(tf) THEN <<>>
    ELSE IF tf[from] # fold THEN <<from>> \o OtherPositions(tf, fold, from + 1)
    ELSE OtherPositions(tf, fold, from + 1)

TrainIndices(tf, fold) == OtherPositions(tf, fold, 1)

FoldPair(tf, fold) == [train |-> TrainIndices(tf, fold), val |-> ValIndices(tf, fold)]

----------------------------------------------------------------------------
(* The StratifiedKFold cell *)

\* largest n_splits tried (the notebook's is 5)
MaxSplits == 5

InitKFold ==
    /\ pc = "kfold_first"
    /\ y \in Datasets
    /\ random_state \in Seeds
    /\ n_splits \in 2..MaxSplits
    /\ test_folds = <<>>
    /\ folds = <<>>
    /\ scaled = <<>>
    /\ test_size = 2
    /\ split = NoSplit
    /\ split2 = NoSplit
    /\ csv_file = <<>>
    /\ prev_split = <<>>
    /\ BootNotRun

\* the for statement asks skf.split for its first pair: the folds are made,
\* or a ValueError ends the cell
KFoldFirst ==
    /\ pc = "kfold_first"
    /\ LET r == MakeTestFolds(y, n_splits, random_state)
       IN /\ test_folds' = r.test_folds
          /\ folds' = IF r.err THEN <<>> ELSE <<FoldPair(r.test_folds, 1)>>
          /\ pc' = IF r.err THEN "raised" ELSE "kfold_loop"
    /\ UNCHANGED <<y, random_state, n_splits, scaled, splitVars, bootVars>>

\* the for statement asks for the next pair and the generator has one
KFoldNext ==
    /\ pc = "kfold_loop"
    /\ Len(folds) < n_splits
    /\ folds' = Append(folds, FoldPair(test_folds, Len(folds) + 1))
    /\ UNCHANGED <<pc, y, random_state, n_splits, test_folds, scaled, splitVars, bootVars>>

\* the for statement asks for the next pair and the generator is exhausted
KFoldStop ==
    /\ pc = "kfold_loop"
    /\ Len(folds) = n_splits
    /\ pc' = "kfold_done"
    /\ UNCHANGED <<y, random_state, n_splits, test_folds, folds, scaled, splitVars, bootVars>>

NextKFold == KFoldFirst \/ KFoldNext \/ KFoldStop

SpecKFold == InitKFold /\ [][NextKFold]_vars

----------------------------------------------------------------------------
(* Properties of the stratified K-fold *)

\* number of the received pairs whose part (train or val) holds record p
TimesIn(part, p) == Cardinality({f \in 1..Len(folds) : p \in Range(folds[f][part])})

\* C2: the loop over StratifiedKFold.split receives exactly n_splits pairs;
\* the validation sets are pairwise disjoint and cover every record; each
\* training set is the data set minus its validation set; so every record is
\* in validation exactly once and in training exactly n_splits - 1 times.
C2_KFoldIsPartition ==
    /\ pc \in {"kfold_loop", "kfold_done"} =>
          /\ Len(folds) <= n_splits
          /\ \A f \in 1..Len(folds) :
                /\ NoDuplicates(folds[f].train \o folds[f].val)
                /\ Range(folds[f].train) = Range(AllRecords) \ Range(folds[f].val)
          /\ \A f, g \in 1..Len(folds) :
                f # g => Range(folds[f].val) \cap Range(folds[g].val) = {}
    /\ pc = "kfold_done" =>
          /\ Len(folds) = n_splits
          /\ \A p \in 1..Len(y) :
                TimesIn("val", p) = 1 /\ TimesIn("train", p) = n_splits - 1

\* the loop has ended for a data set with both classes and more records than
\* folds
C2_Witness ==
    /\ pc = "kfold_done"
    /\ n_splits >= 3
    /\ ClassesIn(AllRecords) = {0, 1}
    /\ Len(y) > 2 * n_splits
    /\ \A f \in 1..n_splits : folds[f].val # <<>>

\* number of records of class cls in the validation set of fold
ValClassSize(fold, cls) == ClassSize(folds[fold].val, cls)

\* ceil(n / k) and floor(n / k)
CeilDiv(n, k) == (n + k - 1) \div k

\* C9 (amended): the records are dealt to the folds in turn over the whole
\* label-sorted data set, classes in the order of their first record.  A class
\* with n members that follow m members of earlier classes gives ceil(n/k)
\* validation members to the n mod k folds (m mod k), (m mod k) + 1, ...
\* (cyclically) and floor(n/k) to the others: the earliest folds get the extra
\* members only when m mod k = 0, as for the class of the first record.
C9_ExtrasFollowPreviousClass ==
    pc = "kfold_done" =>
        LET classes == ClassesByFirstRecord(y)
        IN \A c \in 1..Len(classes) : \A f \in 1..n_splits :
              LET n == ClassSize(AllRecords, classes[c])
                  m == SumSeq([d \in 1..(c - 1) |-> ClassSize(AllRecords, classes[d])])
                  turn == ((f - 1) + n_splits - (m % n_splits)) % n_splits
              IN ValClassSize(f, classes[c]) =
                    IF turn < n % n_splits THEN CeilDiv(n, n_splits) ELSE n \div n_splits

\* C9 (as claimed): when every class has at least k members, for every class
\* with n members, n not divisible by k, folds 0 .. (n mod k)-1 receive
\* ceil(n/k) validation members and the others floor(n/k).
C9_Original ==
    (pc = "kfold_done" /\ MinClassSize(AllRecords) >= n_splits) =>
        \A cls \in ClassesIn(AllRecords) : \A f \in 1..n_splits :
            LET n == ClassSize(AllRecords, cls)
            IN n % n_splits # 0 =>
                  ValClassSize(f, cls) =
                     IF f <= n % n_splits THEN CeilDiv(n, n_splits) ELSE n \div n_splits

\* the loop has ended for a data set in which the second class has a number of
\* members not divisible by n_splits and its extra members are not in the
\* earliest folds
C9_Witness ==
    /\ pc = "kfold_done"
    /\ Len(ClassesByFirstRecord(y)) = 2
    /\ LET cls == ClassesByFirstRecord(y)[2]
           n == ClassSize(AllRecords, cls)
       IN /\ MinClassSize(AllRecords) >= n_splits
          /\ n % n_splits # 0
          /\ ValClassSize(1, cls) = n \div n_splits
          /\ ValClassSize(n_splits, cls) = CeilDiv(n, n_splits)

\* the classes with fewer than n_splits members
SmallClasses == {cls \in ClassesIn(AllRecords) : ClassSize(AllRecords, cls) < n_splits}

\* C16: StratifiedKFold raises, and the loop receives no pair, exactly when
\* n_splits exceeds the number of records or the size of every class.  When
\* only some class has fewer than n_splits members the loop receives all
\* n_splits pairs, and that class is missing from the validation set of
\* some of them.
C16_RaisesOnlyIfEveryClassSmall ==
    /\ pc # "kfold_first" =>
          ((pc = "raised" /\ folds = <<>>) <=>
              (n_splits > Len(y) \/ SmallClasses = ClassesIn(AllRecords)))
    /\ pc = "kfold_done" =>
          /\ Len(folds) = n_splits
          /\ \A cls \in SmallClasses : \E f \in 1..n_splits : ValClassSize(f, cls) = 0

\* C16 (as claimed): when some class has fewer than n_splits members the
\* splitter raises and the loop receives no pair.
C16_Original ==
    (pc # "kfold_first" /\ SmallClasses # {}) => (pc = "raised" /\ folds = <<>>)

\* the loop has ended for a data set of two classes, one of them with fewer
\* than n_splits members and missing from a validation set
C16_Witness ==
    /\ pc = "kfold_done"
    /\ ClassesIn(AllRecords) = {0, 1}
    /\ Cardinality(SmallClasses) = 1
    /\ \E cls \in SmallClasses : \E f \in 1..n_splits : ValClassSize(f, cls) = 0

\* C29: for every class, the numbers of its members in the validation sets of
\* any two folds differ by at most 1, so every validation set has the class
\* within one record of its share, a k-th of the class.
C29_ClassSpreadEvenly ==
    pc = "kfold_done" =>
        \A cls \in ClassesIn(AllRecords) :
            /\ \A f, g \in 1..n_splits :
                  ValClassSize(f, cls) - ValClassSize(g, cls) <= 1
            /\ \A f \in 1..n_splits :
                  /\ n_splits * ValClassSize(f, cls) > ClassSize(AllRecords, cls) - n_splits
                  /\ n_splits * ValClassSize(f, cls) < ClassSize(AllRecords, cls) + n_splits

\* the loop has ended for a data set of two classes, each with at least
\* n_splits + 2 members that do not divide among the folds evenly
C29_Witness ==
    /\ pc = "kfold_done"
    /\ n_splits >= 3
    /\ ClassesIn(AllRecords) = {0, 1}
    /\ \A cls \in {0, 1} :
          /\ ClassSize(AllRecords, cls) >= n_splits + 2
          /\ \E f, g \in 1..n_splits : ValClassSize(f, cls) = ValClassSize(g, cls) + 1

----------------------------------------------------------------------------
(* Exact fractions *)

RECURSIVE GCD(_, _)
GCD(a, b) == IF b = 0 THEN a ELSE GCD(b, a % b)

\* n / d in lowest terms, d > 0
Frac(n, d) == LET g == GCD(Abs(n), d) IN <<n \div g, d \div g>>

RAdd(a, b) == Frac(a[1] * b[2] + b[1] * a[2], a[2] * b[2])
RSub(a, b) == Frac(a[1] * b[2] - b[1] * a[2], a[2] * b[2])
RMul(a, b) == Frac(a[1] * b[1], a[2] * b[2])
RLe(a, b) == a[1] * b[2] <= b[1] * a[2]
RLt(a, b) == a[1] * b[2] < b[1] * a[2]
RMax(a, b) == IF RLe(a, b) THEN b ELSE a
RMin(a, b) == IF RLe(a, b) THEN a ELSE b
RFloor(a) == a[1] \div a[2]

Zero == <<0, 1>>
One == <<1, 1>>

----------------------------------------------------------------------------
(* np.percentile and confidence_intervals *)

\* a with x put before the first element larger than x (a ascending)
RECURSIVE Insert(_, _)
Insert(a, x) ==
    IF a = <<>> THEN <<x>>
    ELSE IF RLe(x, Head(a)) THEN <<x>> \o a
    ELSE <<Head(a)>> \o Insert(Tail(a), x)

\* the values of a in ascending order
RECURSIVE Sort(_)
Sort(a) == IF a = <<>> THEN <<>> ELSE Insert(Sort(Tail(a)), Head(a))

\* a as it is, not sorted
Unsorted(a) == a

\* the order statistics np.percentile interpolates between
OrderStatistics(a) == Sort(a)

\* the percentile without interpolation: the order statistic at or below the
\* position
PercentileLower(a, q) ==
    LET sorted == OrderStatistics(a)
        virtual_index == RMul(RMul(q, <<1, 100>>), <<Len(a) - 1, 1>>)
    IN sorted[RFloor(virtual_index) + 1]

\* np.percentile(a, q), q in percent, linear interpolation between the order
\* statistics around the position q / 100 * (n - 1)
Percentile(a, q) ==
    LET sorted == OrderStatistics(a)
        n == Len(a)
        virtual_index == RMul(RMul(q, <<1, 100>>), <<n - 1, 1>>)
        lo == RFloor(virtual_index)
        hi == Min2(lo + 1, n - 1)
        gamma == RSub(virtual_index, <<lo, 1>>)
    IN RAdd(sorted[lo + 1], RMul(RSub(sorted[hi + 1], sorted[lo + 1]), gamma))

\* top_p = ((1.0-alpha)/2.0) * 100
TopP(alpha_) == RMul(RMul(RSub(One, alpha_), <<1, 2>>), <<100, 1>>)

\* bottom_p = (alpha+((1.0-alpha)/2.0)) * 100
BottomP(alpha_) == RMul(RAdd(alpha_, RMul(RSub(One, alpha_), <<1, 2>>)), <<100, 1>>)

\* the interval with the two percentile ranks exchanged
PercentileIntervalSwapped(scores, alpha_) ==
    <<RMax(Zero, Percentile(scores, BottomP(alpha_))),
      RMin(One, Percentile(scores, TopP(alpha_)))>>

\* the percentile interval of the sequence given
PercentileInterval(scores, alpha_) ==
    <<RMax(Zero, Percentile(scores, TopP(alpha_))),
      RMin(One, Percentile(scores, BottomP(alpha_)))>>

\* the sum and the mean of a in real arithmetic
RECURSIVE RSum(_)
RSum(a) == IF a = <<>> THEN Zero ELSE RAdd(Head(a), RSum(Tail(a)))

ExactMean(a) == RMul(RSum(a), <<1, Len(a)>>)

\* confidence_intervals returning the mean of f1s with the two limits
ConfidenceIntervalsWithMean(distribution_, alpha_) ==
    <<ExactMean(f1s)>> \o PercentileInterval(f1s, alpha_)

\* def confidence_intervals(distribution, alpha=0.95): the percentiles are
\* taken of the module-level f1s, the parameter distribution is not read
confidence_intervals(distribution_, alpha_) == PercentileInterval(f1s, alpha_)

\* significant bits of a floating-point number (53 in a float64)
MantissaBits == 8

RECURSIVE Pow2(_)
Pow2(k) == IF k = 0 THEN 1 ELSE 2 * Pow2(k - 1)

\* n / d rounded to the nearest integer, ties to the even one
RoundHalfEven(n, d) ==
    LET q == n \div d
        r == n % d
    IN IF 2 * r < d THEN q
       ELSE IF 2 * r > d THEN q + 1
       ELSE IF q % 2 = 0 THEN q ELSE q + 1

\* (n / d) * scale, n / d > 0, rounded to MantissaBits significant bits:
\* n / d is brought into [2^(MantissaBits-1), 2^MantissaBits) and rounded there
RECURSIVE RoundScaled(_, _, _)
RoundScaled(n, d, scale) ==
    IF n < Pow2(MantissaBits - 1) * d THEN RoundScaled(2 * n, d, RMul(scale, <<1, 2>>))
    ELSE IF n >= Pow2(MantissaBits) * d THEN RoundScaled(n, 2 * d, RMul(scale, <<2, 1>>))
    ELSE RMul(<<RoundHalfEven(n, d), 1>>, scale)

\* the floating-point number nearest to x >= 0
Float(x) == IF x[1] = 0 THEN Zero ELSE RoundScaled(x[1], x[2], One)

\* np.add.reduce over fewer than 8 numbers: they are added from left to
\* right, every sum rounded
RECURSIVE FloatSum(_, _)
FloatSum(acc, a) ==
    IF a = <<>> THEN acc ELSE FloatSum(Float(RAdd(acc, Float(Head(a)))), Tail(a))

\* np.array(a).mean(): the rounded sum divided by the length, rounded
Mean(a) == Float(RMul(FloatSum(Zero, a), <<1, Len(a)>>))

----------------------------------------------------------------------------
(* resample and evaluate *)

\* rng.randint(0, n, size=(count,))
RECURSIVE RandInt(_, _, _)
RandInt(n, count, s) ==
    IF count = 0 THEN <<>>
    ELSE <<(s % n) + 1>> \o RandInt(n, count - 1, NextRng(s))

RECURSIVE Advance(_, _)
Advance(s, count) == IF count = 0 THEN s ELSE Advance(NextRng(s), count - 1)

\* resample with random_state=None: the draws come from numpy's global
\* generator g, which they advance
ResampleGlobal(X, yv, rs, g) ==
    LET indices == RandInt(Len(X), Len(X), g)
    IN [X |-> Take(X, indices), y |-> Take(yv, indices), indices |-> indices,
        g |-> Advance(g, Len(X))]

\* resample drawing one index list for X and another one for yv
ResampleUnpaired(X, yv, rs, g) ==
    LET indices == RandInt(Len(X), Len(X), RandomState(rs))
        others == RandInt(Len(X), Len(X), Advance(RandomState(rs), Len(X)))
    IN [X |-> Take(X, indices), y |-> Take(yv, others), indices |-> indices, g |-> g]

\* resample(X, yv, random_state=rs): len(X) records drawn with replacement by
\* a generator of its own seeded with rs, the same records of X and of yv
Resample(X, yv, rs, g) ==
    LET indices == RandInt(Len(X), Len(X), RandomState(rs))
    IN [X |-> Take(X, indices), y |-> Take(yv, indices), indices |-> indices, g |-> g]

\* clf.predict(X): the fitted pipeline is a fixed function of the features
Predict(clf, X) == [r \in 1..Len(X) |-> IF X[r] >= clf THEN 1 ELSE 0]

\* a / b, or 1 when b is 0 (zero_division=1)
RatioOne(a, b) == IF b = 0 THEN One ELSE Frac(a, b)

\* a / b, or 0 when b is 0 (zero_division=0, and the 0.0 the metrics return
\* with a warning)
Ratio0(a, b) == IF b = 0 THEN Zero ELSE Frac(a, b)

\* evaluate(clf, X_val, y_val): FPR(f1, precision, recall)
evaluate(clf, X_val, y_val) ==
    LET y_pred == Predict(clf, X_val)
        tp == Cardinality({r \in 1..Len(y_val) : y_val[r] = 1 /\ y_pred[r] = 1})
        fp == Cardinality({r \in 1..Len(y_val) : y_val[r] # 1 /\ y_pred[r] = 1})
        fn == Cardinality({r \in 1..Len(y_val) : y_val[r] = 1 /\ y_pred[r] = 0})
    IN [f1 |-> Ratio0(2 * tp, 2 * tp + fp + fn),
        precision |-> Ratio0(tp, tp + fp),
        recall |-> Ratio0(tp, tp + fn)]

\* the metric functions raise ValueError (average='binary', pos_label=1) when
\* y_true and y_pred hold more than two labels between them, or hold two
\* labels neither of which is 1
MetricRaises(y_true, y_pred) ==
    LET present_labels == Range(y_true) \cup Range(y_pred)
    IN \/ Cardinality(present_labels) > 2
       \/ (1 \notin present_labels /\ Cardinality(present_labels) >= 2)

\* random_state=seed (the same seed for every resample)
ResampleSeedFixed(seed_, iter) == seed_

\* random_state=seed + i
ResampleSeed(seed_, iter) == seed_ + iter

\* the body of the bootstrap loop for i = iter: the FPR tuple it appends, with
\* the state of the global generator afterwards
LoopBody(iter, g) ==
    LET sample == Resample(X_test, y_test, ResampleSeed(boot_seed, iter), g)
    IN [fpr |-> evaluate(pipe, sample.X, sample.y), g |-> sample.g,
        rs |-> ResampleSeed(boot_seed, iter)]

\* the loop body for i = iter ends with the ValueError of evaluate
LoopBodyRaises(iter) ==
    LET sample == Resample(X_test, y_test, ResampleSeed(boot_seed, iter), np_random)
    IN MetricRaises(sample.y, Predict(pipe, sample.X))

----------------------------------------------------------------------------
(* The bootstrap cells *)

\* largest number of records of the test set
MaxTest == 3
\* largest number of bootstrap iterations
MaxResamples == 4

\* the test sets: feature value and label of every record
EvalSets == UNION {[1..n -> {0, 1}] \X [1..n -> {0, 1}] : n \in 1..MaxTest}

\* the fitted pipelines: predict 1 for a feature value of at least the
\* threshold (with threshold 2 no record is predicted positive)
Pipes == {1, 2}

\* confidence levels
Alphas == {<<1, 2>>, <<4, 5>>, <<19, 20>>, <<99, 100>>}

SplitNotRun ==
    /\ y = <<>> /\ test_size = 2 /\ split = NoSplit /\ split2 = NoSplit
    /\ csv_file = <<>>
    /\ prev_split = <<>>
    /\ n_splits = 0 /\ test_folds = <<>> /\ folds = <<>> /\ scaled = <<>>

InitBootWith(start, seeds, pipes) ==
    /\ pc = start
    /\ SplitNotRun
    /\ random_state \in seeds
    /\ \E e \in EvalSets : X_test = e[1] /\ y_test = e[2]
    /\ pipe \in pipes
    /\ n_resamples \in 1..MaxResamples
    /\ boot_seed = 0 /\ loop_i = 0 /\ fprs = <<>>
    /\ np_random = RandomState(0)
    /\ seeds_used = <<>> /\ runs = 0 /\ prev_fprs = <<>>
    /\ workers = {}
    /\ f1s = <<>> /\ precisions = <<>> /\ recalls = <<>>
    /\ arg_distribution = <<>> /\ arg_alpha = <<0, 1>> /\ limits = <<>>
    /\ printed = <<>>

InitBoot == InitBootWith("boot_cell", Seeds, Pipes)

notBoot == <<y, random_state, splitVars, kfoldVars>>

\* seed = 1337; pipe = make_pipeline(...).fit(X_train_val, y_train_val);
\* fprs = []   (the fit has random_state=seed and gives the same pipeline)
BootStart ==
    /\ pc = "boot_cell"
    /\ boot_seed' = random_state
    /\ fprs' = <<>>
    /\ loop_i' = 0
    /\ seeds_used' = <<>>
    /\ runs' = runs + 1
    /\ prev_fprs' = fprs
    /\ pc' = "boot_loop"
    /\ UNCHANGED <<notBoot, evalVars, n_resamples, np_random, workers, ciVars>>

\* an iteration that stores its tuple in every position of fprs
BootIterOverwrite ==
    /\ pc = "boot_loop"
    /\ loop_i < n_resamples
    /\ ~LoopBodyRaises(loop_i)
    /\ LET body == LoopBody(loop_i, np_random)
       IN /\ fprs' = [j \in 1..(Len(fprs) + 1) |-> body.fpr]
          /\ np_random' = body.g
          /\ seeds_used' = Append(seeds_used, body.rs)
    /\ loop_i' = loop_i + 1
    /\ UNCHANGED <<pc, notBoot, evalVars, boot_seed, n_resamples, runs, prev_fprs,
                   workers, ciVars>>

\* an iteration that keeps its resample in X_test, y_test
BootIterRebind ==
    /\ pc = "boot_loop"
    /\ loop_i < n_resamples
    /\ ~LoopBodyRaises(loop_i)
    /\ LET body == LoopBody(loop_i, np_random)
           sample == Resample(X_test, y_test, body.rs, np_random)
       IN /\ fprs' = Append(fprs, body.fpr)
          /\ np_random' = body.g
          /\ seeds_used' = Append(seeds_used, body.rs)
          /\ X_test' = sample.X
          /\ y_test' = sample.y
    /\ loop_i' = loop_i + 1
    /\ UNCHANGED <<pc, notBoot, pipe, boot_seed, n_resamples, runs, prev_fprs,
                   workers, ciVars>>

\* one iteration of for i in range(...): resample, evaluate, fprs.append(fpr)
BootIter ==
    /\ pc = "boot_loop"
    /\ loop_i < n_resamples
    /\ ~LoopBodyRaises(loop_i)
    /\ LET body == LoopBody(loop_i, np_random)
       IN /\ fprs' = Append(fprs, body.fpr)
          /\ np_random' = body.g
          /\ seeds_used' = Append(seeds_used, body.rs)
    /\ loop_i' = loop_i + 1
    /\ UNCHANGED <<pc, notBoot, evalVars, boot_seed, n_resamples, runs, prev_fprs,
                   workers, ciVars>>

\* evaluate raises in iteration i: the cell ends with the traceback, the
\* names of the module keep what was assigned so far
BootRaise ==
    /\ pc = "boot_loop"
    /\ loop_i < n_resamples
    /\ LoopBodyRaises(loop_i)
    /\ pc' = "error"
    /\ UNCHANGED <<notBoot, bootVars>>

\* the loop left after its first iteration (a break)
BootEndEarly ==
    /\ pc = "boot_loop"
    /\ loop_i >= 1
    /\ pc' = "unpack"
    /\ UNCHANGED <<notBoot, bootVars>>

\* range(...) is exhausted: the cell ends
BootEnd ==
    /\ pc = "boot_loop"
    /\ loop_i = n_resamples
    /\ pc' = "unpack"
    /\ UNCHANGED <<notBoot, bootVars>>

\* the bootstrap cell is run a second time
BootAgain ==
    /\ pc = "unpack"
    /\ runs < 2
    /\ pc' = "boot_cell"
    /\ UNCHANGED <<notBoot, bootVars>>

\* f1s, precisions, recalls = list(zip(*fprs))
Unpack ==
    /\ pc = "unpack"
    /\ f1s' = [j \in 1..Len(fprs) |-> fprs[j].f1]
    /\ precisions' = [j \in 1..Len(fprs) |-> fprs[j].precision]
    /\ recalls' = [j \in 1..Len(fprs) |-> fprs[j].recall]
    /\ pc' = "ci_call"
    /\ UNCHANGED <<notBoot, evalVars, loopVars, arg_distribution, arg_alpha, limits, printed>>

\* the call made on the precisions: confidence_intervals(precisions, 0.95)
NotebookCallPrecisions ==
    /\ pc = "ci_call"
    /\ arg_distribution' = precisions
    /\ arg_alpha' = <<19, 20>>
    /\ limits' = confidence_intervals(precisions, <<19, 20>>)
    /\ pc' = "done"
    /\ UNCHANGED <<notBoot, evalVars, loopVars, f1s, precisions, recalls, printed>>

\* lower_limit, upper_limit = confidence_intervals(f1s, 0.95)
NotebookCall ==
    /\ pc = "ci_call"
    /\ arg_distribution' = f1s
    /\ arg_alpha' = <<19, 20>>
    /\ limits' = confidence_intervals(f1s, <<19, 20>>)
    /\ pc' = "done"
    /\ UNCHANGED <<notBoot, evalVars, loopVars, f1s, precisions, recalls, printed>>

\* confidence_intervals called with another of the module-level
\* distributions or another confidence level
OtherCall ==
    /\ pc = "ci_call"
    /\ \E d \in {f1s, precisions, recalls}, a \in Alphas :
          /\ <<d, a>> # <<f1s, <<19, 20>>>>
          /\ arg_distribution' = d
          /\ arg_alpha' = a
          /\ limits' = confidence_intervals(d, a)
    /\ pc' = "done"
    /\ UNCHANGED <<notBoot, evalVars, loopVars, f1s, precisions, recalls, printed>>

\* print(f'F1-score estimate: {np.array(f1s).mean():.3f}, 95%CI:
\* [{lower_limit:.3f}, {upper_limit:.3f}]')
PrintEstimate ==
    /\ pc = "done"
    /\ printed' = <<Mean(f1s), limits[1], limits[2]>>
    /\ pc' = "printed"
    /\ UNCHANGED <<notBoot, evalVars, loopVars, f1s, precisions, recalls,
                   arg_distribution, arg_alpha, limits>>

NextBoot == BootStart \/ BootIter \/ BootEnd \/ BootAgain \/ Unpack
                \/ NotebookCall \/ OtherCall \/ PrintEstimate

SpecBoot == InitBoot /\ [][NextBoot]_vars

----------------------------------------------------------------------------
(* The bootstrap cell on a test file whose label column is not binary *)

\* labels of a test file: 0, 1 and another value
FileLabels == {0, 1, 2}

EvalSetsAnyLabel == UNION {[1..n -> {0, 1}] \X [1..n -> FileLabels] : n \in 1..MaxTest}

InitErr ==
    /\ pc = "boot_cell"
    /\ SplitNotRun
    /\ random_state \in Seeds
    /\ \E e \in EvalSetsAnyLabel : X_test = e[1] /\ y_test = e[2]
    /\ pipe \in Pipes
    /\ n_resamples \in 1..MaxResamples
    /\ boot_seed = 0 /\ loop_i = 0 /\ fprs = <<>>
    /\ np_random = RandomState(0)
    /\ seeds_used = <<>> /\ runs = 0 /\ prev_fprs = <<>>
    /\ workers = {}
    /\ f1s = <<>> /\ precisions = <<>> /\ recalls = <<>>
    /\ arg_distribution = <<>> /\ arg_alpha = <<0, 1>> /\ limits = <<>>
    /\ printed = <<>>

NextErr == BootStart \/ BootIter \/ BootRaise \/ BootEnd \/ Unpack \/ NotebookCall
              \/ PrintEstimate

SpecErr == InitErr /\ [][NextErr]_vars

----------------------------------------------------------------------------
(* confidence_intervals called on its own *)

\* longest score sequence tried
MaxScores == 3

\* score values, some of them outside [0, 1]
ScoreValues == {<<0 - 1, 2>>, <<0, 1>>, <<1, 3>>, <<1, 2>>, <<1, 1>>, <<3, 2>>}

ScoreSeqs == UNION {[1..n -> ScoreValues] : n \in 1..MaxScores}

\* the scores 0.40, 0.45, 0.50, 0.55, 0.60
ExampleScores == <<<<2, 5>>, <<9, 20>>, <<1, 2>>, <<11, 20>>, <<3, 5>>>>

\* sequences other than the one held by f1s, the empty one among them
OtherSeqs(a) == {<<>>} \cup {<<v>> : v \in ScoreValues}
                    \cup (IF Len(a) > 1 THEN {Tail(a)} ELSE {})

InitCI ==
    /\ pc = "ci_call"
    /\ SplitNotRun
    /\ random_state = 1337
    /\ X_test = <<>> /\ y_test = <<>> /\ pipe = 0
    /\ boot_seed = 0 /\ n_resamples = 0 /\ loop_i = 0 /\ fprs = <<>>
    /\ np_random = 0 /\ seeds_used = <<>> /\ runs = 0 /\ prev_fprs = <<>>
    /\ workers = {}
    /\ f1s \in ScoreSeqs \cup {ExampleScores} /\ precisions = <<>> /\ recalls = <<>>
    /\ arg_distribution = <<>> /\ arg_alpha = <<0, 1>> /\ limits = <<>>
    /\ printed = <<>>

\* confidence_intervals(d, a) for the sequence f1s holds or for another one
CallWithAnySequence ==
    /\ pc = "ci_call"
    /\ \E d \in {f1s} \cup OtherSeqs(f1s), a \in Alphas :
          /\ arg_distribution' = d
          /\ arg_alpha' = a
          /\ limits' = confidence_intervals(d, a)
    /\ pc' = "done"
    /\ UNCHANGED <<notBoot, evalVars, loopVars, f1s, precisions, recalls, printed>>

NextCI == CallWithAnySequence

SpecCI == InitCI /\ [][NextCI]_vars

----------------------------------------------------------------------------
(* Properties of the bootstrap and of the confidence interval *)

\* C3: two runs of the bootstrap cell with the same pipeline, test set, number
\* of resamples and seed give the same sequence of FPR tuples, element for
\* element.
C3_BootstrapDeterministic ==
    (runs = 2 /\ pc \in {"unpack", "ci_call", "done"}) => fprs = prev_fprs

\* the second run has ended and its resamples gave different scores
C3_Witness ==
    /\ runs = 2
    /\ pc = "unpack"
    /\ Len(fprs) >= 2
    /\ \E j, k \in 1..Len(fprs) : fprs[j] # fprs[k]

\* C4: iteration i of the bootstrap loop calls resample with
\* random_state = seed + i, so no two iterations use the same seed.
C4_SeedPerIteration ==
    pc = "boot_loop" =>
        /\ Len(seeds_used) = loop_i
        /\ \A j \in 1..Len(seeds_used) : seeds_used[j] = boot_seed + (j - 1)
        /\ NoDuplicates(seeds_used)

\* the loop has run at least two iterations
C4_Witness ==
    /\ pc = "boot_loop"
    /\ loop_i >= 2
    /\ Len(seeds_used) >= 2

\* C5 (as claimed): the interval confidence_intervals returns is the
\* percentile interval of the sequence passed as its argument, whatever the
\* module-level f1s holds.
C5_ResultIsOfArgument ==
    pc = "done" => limits = PercentileInterval(arg_distribution, arg_alpha)

\* contains: the interval outer contains the interval inner
Contains(outer, inner) == RLe(outer[1], inner[1]) /\ RLe(inner[2], outer[2])

\* C6: for a fixed non-empty score sequence and confidence levels c1 <= c2 the
\* interval for c2 contains the interval for c1.
C6_IntervalMonotone ==
    \A d \in {f1s, arg_distribution} : \A c1, c2 \in Alphas :
        (d # <<>> /\ f1s # <<>> /\ RLe(c1, c2)) =>
            Contains(confidence_intervals(d, c2), confidence_intervals(d, c1))

\* confidence_intervals has been called on the sequence f1s holds, and the
\* 0.99 interval of that sequence is strictly wider at both ends than the 0.5
\* interval
C6_Witness ==
    /\ pc = "done"
    /\ arg_distribution = f1s
    /\ RLt(confidence_intervals(f1s, <<99, 100>>)[1], confidence_intervals(f1s, <<1, 2>>)[1])
    /\ RLt(confidence_intervals(f1s, <<1, 2>>)[2], confidence_intervals(f1s, <<99, 100>>)[2])

\* C11 (as claimed): when the bootstrap loop ends with an error, whether in
\* its first iteration or in a later one, no partially filled score sequence
\* is left for the caller to see.
C11_NoPartialScores ==
    pc = "error" => fprs = <<>>

\* C12: confidence_intervals returns the pair (lower_limit, upper_limit) of
\* clamped percentile bounds and no mean; the mean estimate is computed by
\* the caller, which prints the mean of f1s with the two limits.
C12_ReturnsLimitsOnly ==
    /\ pc \in {"done", "printed"} =>
          /\ Len(limits) = 2
          /\ limits[1] = RMax(Zero, Percentile(f1s, TopP(arg_alpha)))
          /\ limits[2] = RMin(One, Percentile(f1s, BottomP(arg_alpha)))
    /\ pc = "printed" => printed = <<Mean(f1s), limits[1], limits[2]>>

\* C12 (as claimed): the value confidence_intervals returns is the triple
\* (mean of the scores, lower, upper); stated for the calls whose argument is
\* the sequence f1s holds.
C12_Original ==
    (pc = "done" /\ arg_distribution = f1s) =>
        limits = <<Mean(f1s)>> \o PercentileInterval(f1s, arg_alpha)

\* the estimate of at least two scores has been printed, its mean strictly
\* between two different limits
C12_Witness ==
    /\ pc = "printed"
    /\ Len(f1s) >= 2
    /\ RLt(printed[2], printed[1])
    /\ RLt(printed[1], printed[3])

\* the resample of iteration iter, and what the pipeline predicts for it
SampleOf(iter) == Resample(X_test, y_test, ResampleSeed(boot_seed, iter), np_random)

NoPositivePredicted(iter) == 1 \notin Range(Predict(pipe, SampleOf(iter).X))

ZeroScores == [f1 |-> Zero, precision |-> Zero, recall |-> Zero]

\* C18: when the pipeline predicts no positive on the (0/1-labelled) sample
\* of an iteration, evaluate does not raise and the iteration appends
\* FPR(f1=0, precision=0, recall=0).
C18_NoPositiveGivesZeros ==
    pc = "boot_loop" =>
        /\ \A j \in 1..Len(fprs) : NoPositivePredicted(j - 1) => fprs[j] = ZeroScores
        /\ (loop_i < n_resamples /\ NoPositivePredicted(loop_i)) =>
               (~LoopBodyRaises(loop_i) /\ LoopBody(loop_i, np_random).fpr = ZeroScores)

\* an iteration whose sample holds a positive record and for which nothing
\* positive is predicted has appended its scores
C18_Witness ==
    /\ pc = "boot_loop"
    /\ loop_i >= 1
    /\ NoPositivePredicted(0)
    /\ 1 \in Range(SampleOf(0).y)
    /\ fprs[1] = ZeroScores

\* C17 (as claimed): a call of confidence_intervals with an empty score
\* sequence ends with an error and returns no interval, whatever the module
\* holds.
C17_EmptyInputRaises ==
    (pc \in {"done", "error"} /\ arg_distribution = <<>>) =>
        (pc = "error" /\ limits = <<>>)

\* confidence_intervals has been called on the example scores at level 0.8
C13_ExampleCalled ==
    /\ pc = "done"
    /\ f1s = ExampleScores
    /\ arg_distribution = f1s
    /\ arg_alpha = <<4, 5>>

InUnitInterval(a) == \A j \in 1..Len(a) : RLe(Zero, a[j]) /\ RLe(a[j], One)

\* C23 (as claimed): for a non-empty score sequence s (of valid scores, which
\* the clamps leave alone) and a confidence level c, confidence_intervals
\* returns the ((1-c)/2)*100-th percentile of s as the lower bound and the
\* (c+(1-c)/2)*100-th percentile of s as the upper bound, by linear
\* interpolation; the two ranks sum to 100.
C23_LimitsArePercentilesOfArgument ==
    (pc = "done" /\ arg_distribution # <<>> /\ InUnitInterval(arg_distribution)) =>
        /\ limits[1] = Percentile(arg_distribution, TopP(arg_alpha))
        /\ limits[2] = Percentile(arg_distribution, BottomP(arg_alpha))
        /\ RAdd(TopP(arg_alpha), BottomP(arg_alpha)) = <<100, 1>>

\* C24 (as claimed): for a non-empty score sequence, also one with scores
\* outside [0, 1], the interval returned satisfies 0 <= lower <= upper <= 1;
\* for a single score in [0, 1] lower = upper = that score.
C24_IntervalWithinUnitInterval ==
    (pc = "done" /\ arg_distribution # <<>>) =>
        /\ RLe(Zero, limits[1])
        /\ RLe(limits[1], limits[2])
        /\ RLe(limits[2], One)
        /\ (Len(arg_distribution) = 1 /\ InUnitInterval(arg_distribution)) =>
              limits = <<arg_distribution[1], arg_distribution[1]>>

\* the (features, label) pairs of the test set
TestPairs == {<<X_test[p], y_test[p]>> : p \in 1..Len(X_test)}

\* C26: each bootstrap iteration draws exactly len(X_test) indices, each one
\* an index of the test set (repetitions allowed), and takes the features and
\* the labels at the same indices, so every record of a resample is a
\* (features, label) pair of the test set.
C26_ResampleOfTestPairs ==
    pc = "boot_loop" =>
        \A it \in 0..(n_resamples - 1) :
            LET sample == SampleOf(it)
            IN /\ Len(sample.indices) = Len(X_test)
               /\ Range(sample.indices) \subseteq 1..Len(X_test)
               /\ sample.X = Take(X_test, sample.indices)
               /\ sample.y = Take(y_test, sample.indices)
               /\ \A r \in 1..Len(sample.X) : <<sample.X[r], sample.y[r]>> \in TestPairs

\* an iteration has run whose resample repeats a record and leaves another
\* one out, on a test set whose records are not all alike
C26_Witness ==
    /\ pc = "boot_loop"
    /\ loop_i >= 1
    /\ Cardinality(TestPairs) >= 2
    /\ ~NoDuplicates(SampleOf(loop_i - 1).indices)
    /\ Range(SampleOf(loop_i - 1).indices) # 1..Len(X_test)

\* the f1 scores of all the tuples of fprs
AllF1s == [j \in 1..Len(fprs) |-> fprs[j].f1]

\* C27: the result sequence is append-only: once an iteration has appended
\* its tuple, no later iteration (nor any later cell of the run) changes the
\* tuples already there; and the confidence interval is derived only after
\* the last iteration, from the scores of all the iterations.
C27_AppendOnly ==
    /\ [][pc # "boot_cell" =>
            (Len(fprs') >= Len(fprs) /\ SubSeq(fprs', 1, Len(fprs)) = fprs)]_vars
    /\ [][pc = "boot_loop" /\ loop_i' # loop_i =>
            (loop_i' = loop_i + 1 /\ Len(fprs') = loop_i')]_vars
    /\ [](limits # <<>> =>
            /\ pc \in {"done", "printed"}
            /\ Len(fprs) = n_resamples
            /\ limits = PercentileInterval(AllF1s, arg_alpha))

\* the interval has been derived from a run of at least three iterations
\* whose tuples are not all equal
C27_Witness ==
    /\ pc = "done"
    /\ limits # <<>>
    /\ Len(fprs) >= 3
    /\ fprs[1] # fprs[2]

\* C30: the bootstrap iterations leave the test set (features and labels) and
\* the fitted pipeline as they were before the first iteration; of the
\* program's data only the result sequence changes (with the loop's own
\* counter), the global generator and every other name stay as they are.
C30_IterationsChangeOnlyResults ==
    [][pc = "boot_loop" =>
          /\ X_test' = X_test
          /\ y_test' = y_test
          /\ pipe' = pipe
          /\ np_random' = np_random
          /\ UNCHANGED <<notBoot, boot_seed, n_resamples, ciVars>>
          /\ fprs' # fprs => loop_i' = loop_i + 1]_vars

\* two iterations have run, the last one on a resample that is not the test
\* set itself, and their tuples differ
C30_Witness ==
    /\ pc = "boot_loop"
    /\ loop_i >= 2
    /\ fprs[loop_i] # fprs[loop_i - 1]
    /\ SampleOf(loop_i - 1).X # X_test
    /\ SampleOf(loop_i - 1).y # y_test

----------------------------------------------------------------------------
(* The bootstrap and confidence-interval cells in the notebook's own order,
   each run once *)

NextRun == BootStart \/ BootIter \/ BootEnd \/ Unpack \/ NotebookCall \/ PrintEstimate

SpecRun == InitBoot /\ [][NextRun]_vars

\* C28: in the notebook's own top-to-bottom run the only call is
\* confidence_intervals(f1s, 0.95): the module-level f1s is the argument, so
\* the interval returned is the percentile interval of the argument.
C28_NotebookCallOfF1s ==
    pc \in {"done", "printed"} =>
        /\ arg_distribution = f1s
        /\ arg_alpha = <<19, 20>>
        /\ f1s = AllF1s
        /\ limits = PercentileInterval(arg_distribution, arg_alpha)

\* the call has been made in a run where another one of the sequences as the
\* argument would have shown the difference
C28_Witness ==
    /\ pc = "done"
    /\ Len(f1s) >= 2
    /\ precisions # f1s
    /\ PercentileInterval(precisions, arg_alpha) # limits

----------------------------------------------------------------------------
(* The bootstrap cell run once to its end: the interpreter executes the
   cell's statements one after the other, so a statement that can run does *)

\* largest test set of the runs followed to their end
MaxLoopTest == 2

InitLoop ==
    /\ pc = "test_cell"
    /\ SplitNotRun
    /\ random_state = 1337
    /\ BootNotRun

\* the cells before the bootstrap cell: pipe = pipe.fit(X_train_val,
\* y_train_val); test_df = pd.read_csv('wine_quality_test.csv'); X_test,
\* y_test = to_features(test_df), for any fitted pipeline, any non-empty test
\* file and any number of iterations written in the loop's range(...)
TestCell ==
    /\ pc = "test_cell"
    /\ \E e \in EvalSets : Len(e[1]) <= MaxLoopTest /\ X_test' = e[1] /\ y_test' = e[2]
    /\ pipe' = 1
    /\ n_resamples' \in 1..MaxResamples
    /\ np_random' = RandomState(0)
    /\ pc' = "boot_cell"
    /\ UNCHANGED <<notBoot, boot_seed, loop_i, fprs, seeds_used, runs, prev_fprs,
                   workers, ciVars>>

NextLoop == TestCell \/ BootStart \/ BootIter \/ BootEnd

SpecLoop == InitLoop /\ [][NextLoop]_vars /\ WF_vars(NextLoop)

\* the FPR tuples of iterations 0 .. n_resamples - 1, in this order
ScoresInIterationOrder ==
    /\ Len(fprs) = n_resamples
    /\ \A j \in 1..Len(fprs) : fprs[j] = LoopBody(j - 1, np_random).fpr

----------------------------------------------------------------------------
(* The split cell run twice, with other random operations in between *)

\* largest number of draws another random operation takes from numpy's
\* global generator
MaxDraws == 2

InitDet ==
    /\ pc = "before_split"
    /\ y \in Datasets
    /\ test_size \in {2, 3}
    /\ random_state \in Seeds
    /\ split = NoSplit
    /\ split2 = NoSplit
    /\ csv_file = <<>>
    /\ prev_split = <<>>
    /\ n_splits = 0
    /\ test_folds = <<>>
    /\ folds = <<>>
    /\ scaled = <<>>
    /\ BootNotRun

\* the cells run before the split cell: some of them (or none) draw from
\* numpy's global generator
OtherRandomOp ==
    /\ pc = "before_split"
    /\ \E draws \in 0..MaxDraws : np_random' = Advance(np_random, draws)
    /\ pc' = "split_test"
    /\ UNCHANGED <<y, random_state, splitVars, kfoldVars, evalVars, boot_seed,
                   n_resamples, loop_i, fprs, seeds_used, runs, prev_fprs, workers,
                   ciVars>>

\* the split cell is run a second time
SplitAgain ==
    /\ pc = "split_done"
    /\ prev_split = <<>>
    /\ prev_split' = <<[first |-> split, second |-> split2, g |-> np_random]>>
    /\ pc' = "before_split"
    /\ UNCHANGED <<y, test_size, random_state, split, split2, csv_file, kfoldVars,
                   bootVars>>

NextDet == OtherRandomOp \/ SplitTest \/ SplitVal \/ SplitAgain

SpecDet == InitDet /\ [][NextDet]_vars

\* C22: two runs of the stratified splits with the same data set, test_size
\* and seed return the same train and test parts, whatever was drawn from the
\* global generator before each of them.
C22_SameSeedSameSplit ==
    (prev_split # <<>> /\ pc = "split_done") =>
        /\ split = prev_split[1].first
        /\ split2 = prev_split[1].second

C22_Witness ==
    /\ prev_split # <<>>
    /\ pc = "split_done"
    /\ np_random # prev_split[1].g
    /\ Len(split.test) >= 2
    /\ Len(split2.test) >= 2

----------------------------------------------------------------------------
(* The evaluation flows from the splits to the bootstrap: the scaler and
   the test file *)

\* _make_test_folds with shuffle=False, as cross_validate's cv=5 builds it:
\* the class's fold numbers are given to the class's records unshuffled
RECURSIVE AssignFoldsInOrder(_, _, _, _, _, _)
AssignFoldsInOrder(yy, classes, y_counts, k, c, tf) ==
    IF c > Len(classes) THEN tf
    ELSE LET ffc == FoldsForClass(y_counts, k, 1, c)
             where == PositionsOf(yy, classes[c], 1)
             assigned == [p \in 1..Len(yy) |->
                            IF yy[p] = classes[c]
                            THEN ffc[CHOOSE j \in 1..Len(where) : where[j] = p]
                            ELSE tf[p]]
         IN AssignFoldsInOrder(yy, classes, y_counts, k, c + 1, assigned)

\* check_cv(cv, y, classifier=True) and list(cv.split(X, y)) of cross_validate
CheckCV(yy, cv) ==
    LET classes == ClassesByFirstRecord(yy)
        y_counts == [c \in 1..Len(classes) |-> Count(yy, classes[c])]
    IN IF cv > Len(yy) THEN [err |-> TRUE, test_folds |-> <<>>]
       ELSE IF \A c \in 1..Len(classes) : cv > y_counts[c]
            THEN [err |-> TRUE, test_folds |-> <<>>]
       ELSE [err |-> FALSE,
             test_folds |-> AssignFoldsInOrder(yy, classes, y_counts, cv, 1,
                                               Repeat(0, Len(yy)))]

\* a scaler fit on every row given to cross_validate, whatever the fold
FitRecordsAll(rows, train) == rows

\* the rows Pipeline.fit hands to StandardScaler.fit_transform inside
\* cross_validate: X[train] of the fold
FitRecords(rows, train) == Take(rows, train)

\* the rows the fitted pipeline transforms and scores: X[test] of the fold
ScoredRecords(rows, val) == Take(rows, val)

\* test_df.to_csv('wine_quality_test.csv', index=False): the rows of the
\* part in order, without the index.  A row is the record's feature values
\* (stood for by its record of df) and its label
ToCsv(part) == [i \in 1..Len(part) |-> [features |-> part[i], tasty |-> y[part[i]]]]

\* to_features(df): the feature columns and the column 'tasty' of the rows
ToFeatures(rows) ==
    [X |-> [i \in 1..Len(rows) |-> rows[i].features],
     y |-> [i \in 1..Len(rows) |-> rows[i].tasty]]

\* every record of df given to the fit
XTrainValAll == AllRecords

\* X_train_val, y_train_val = to_features(train_val_df)
XTrainVal == split.train

\* pipe.fit(X, y) with a fixed random_state: a function of the training
\* records (here the threshold is the first positive training record)
PipeFit(rows) ==
    IF \E p \in Range(rows) : y[p] = 1
    THEN CHOOSE p \in Range(rows) :
            y[p] = 1 /\ \A q \in Range(rows) : y[q] = 1 => p <= q
    ELSE Len(y) + 1

\* largest number of bootstrap iterations run after the test evaluation
FlowResamples == 2

InitFlow ==
    /\ pc = "split_test"
    /\ y \in Datasets
    /\ test_size \in {2, 3}
    /\ random_state \in Seeds
    /\ split = NoSplit
    /\ split2 = NoSplit
    /\ csv_file = <<>>
    /\ prev_split = <<>>
    /\ n_splits \in 2..MaxSplits
    /\ test_folds = <<>>
    /\ folds = <<>>
    /\ scaled = <<>>
    /\ BootNotRun

\* test_df.to_csv('wine_quality_test.csv', index=False)
WriteTestFile ==
    /\ pc = "split_done"
    /\ csv_file' = ToCsv(split.test)
    /\ pc' = "csv_written"
    /\ UNCHANGED <<y, test_size, random_state, split, split2, prev_split, kfoldVars, bootVars>>

\* scaler = StandardScaler().fit(X_train); X_train = scaler.transform(X_train);
\* X_val = scaler.transform(X_val), with X_train of train_df and X_val of
\* val_df; the classifiers of the next cells are scored on this X_val
ScalerCell ==
    /\ pc = "csv_written"
    /\ scaled' = Append(scaled, [flow |-> "holdout", fit |-> split2.train,
                                 applied |-> split2.test])
    /\ pc' = "cv_first"
    /\ UNCHANGED <<y, random_state, n_splits, test_folds, folds, splitVars, bootVars>>

\* cross_validate(pipe, X_train_val, y_train_val, ..., cv=n_splits) makes its
\* folds, or a ValueError ends the cell
CrossValidateSplit ==
    /\ pc = "cv_first"
    /\ LET r == CheckCV(Take(y, split.train), n_splits)
       IN /\ test_folds' = r.test_folds
          /\ pc' = IF r.err THEN "raised" ELSE "cv_loop"
    /\ UNCHANGED <<y, random_state, n_splits, folds, scaled, splitVars, bootVars>>

\* _fit_and_score of one fold: a clone of the pipeline is fit on X[train] and
\* scored on X[test]
CrossValidateFold ==
    /\ pc = "cv_loop"
    /\ Len(folds) < n_splits
    /\ LET fp == FoldPair(test_folds, Len(folds) + 1)
       IN /\ folds' = Append(folds, fp)
          /\ scaled' = Append(scaled, [flow |-> "cv",
                                       fit |-> FitRecords(split.train, fp.train),
                                       applied |-> ScoredRecords(split.train, fp.val)])
    /\ UNCHANGED <<pc, y, random_state, n_splits, test_folds, splitVars, bootVars>>

\* pipe = pipe.fit(X_train_val, y_train_val), once every fold is scored
FinalFit ==
    /\ pc = "cv_loop"
    /\ Len(folds) = n_splits
    /\ scaled' = Append(scaled, [flow |-> "test", fit |-> XTrainVal,
                                 applied |-> <<>>])
    /\ pipe' = PipeFit(XTrainVal)
    /\ pc' = "final_fit"
    /\ UNCHANGED <<y, random_state, n_splits, test_folds, folds, splitVars,
                   X_test, y_test, loopVars, ciVars>>

\* test_df = pd.read_csv('wine_quality_test.csv'); evaluate(pipe, X_test,
\* y_test): the fitted pipeline transforms the records of test_df
TestEvaluate ==
    /\ pc = "final_fit"
    /\ X_test' = ToFeatures(csv_file).X
    /\ y_test' = ToFeatures(csv_file).y
    /\ scaled' = [scaled EXCEPT ![Len(scaled)].applied = X_test']
    /\ pc' = "test_done"
    /\ UNCHANGED <<y, random_state, n_splits, test_folds, folds, splitVars,
                   pipe, loopVars, ciVars>>

\* seed = 1337; pipe = make_pipeline(...).fit(X_train_val, y_train_val);
\* fprs = [], and the for statement over range(...) begins
FlowBootStart ==
    /\ pc = "test_done"
    /\ boot_seed' = random_state
    /\ pipe' = PipeFit(XTrainVal)
    /\ scaled' = Append(scaled, [flow |-> "boot", fit |-> XTrainVal,
                                 applied |-> <<>>])
    /\ n_resamples' \in 1..FlowResamples
    /\ fprs' = <<>>
    /\ loop_i' = 0
    /\ seeds_used' = <<>>
    /\ runs' = runs + 1
    /\ prev_fprs' = fprs
    /\ pc' = "boot_loop"
    /\ UNCHANGED <<y, random_state, n_splits, test_folds, folds, splitVars,
                   X_test, y_test, np_random, workers, ciVars>>

NextFlow ==
    SplitTest \/ SplitVal \/ WriteTestFile \/ ScalerCell \/ CrossValidateSplit
        \/ CrossValidateFold \/ FinalFit \/ TestEvaluate \/ FlowBootStart
        \/ BootIter \/ BootEnd

SpecFlow == InitFlow /\ [][NextFlow]_vars

\* C20: in the hold-out flow, in every cross-validation fold and in the final
\* test evaluation, the scaler is fit only on records of the training part:
\* no record it transforms for evaluation is among the records it was fit on.
C20_ScalerFitOnTrainingOnly ==
    \A e \in 1..Len(scaled) :
        /\ Range(scaled[e].fit) \cap Range(scaled[e].applied) = {}
        /\ scaled[e].flow = "holdout" => scaled[e].fit = split2.train
        /\ scaled[e].flow = "cv" =>
              Range(scaled[e].fit) =
                  Range(split.train) \ Range(scaled[e].applied)
        /\ scaled[e].flow = "test" => scaled[e].fit = split.train

C20_Witness ==
    /\ pc = "test_done"
    /\ Len(scaled) = n_splits + 2
    /\ \A e \in 1..Len(scaled) : scaled[e].applied # <<>> /\ scaled[e].fit # <<>>
    /\ {scaled[e].flow : e \in 1..Len(scaled)} = {"holdout", "cv", "test"}

\* the records whose rows are in the test file
FileRecords == {csv_file[i].features : i \in 1..Len(csv_file)}

\* C21: the model scored by the test evaluation and by the bootstrap loop is
\* fit only on non-test records: the records passed to its fit (the
\* train+validation part) are disjoint from the test part that was written
\* to the file and read back, and every record the model is scored on, in the
\* test evaluation and in every resample, is a record of that file.
C21_FitOnNonTestRecords ==
    /\ csv_file # <<>> => FileRecords = Range(split.test)
    /\ X_test # <<>> => Range(X_test) = FileRecords
    /\ \A e \in 1..Len(scaled) :
          scaled[e].flow \in {"test", "boot"} =>
              /\ Range(scaled[e].fit) \cap FileRecords = {}
              /\ Range(scaled[e].applied) \subseteq FileRecords
              /\ pc \in {"boot_loop", "unpack"} =>
                    \A it \in 0..(n_resamples - 1) :
                        /\ Range(SampleOf(it).X) \subseteq FileRecords
                        /\ Range(SampleOf(it).X) \cap Range(scaled[e].fit) = {}

C21_Witness ==
    /\ pc = "unpack"
    /\ Len(fprs) = FlowResamples
    /\ \E e \in 1..Len(scaled) : scaled[e].flow = "boot" /\ scaled[e].fit # <<>>
    /\ \E e \in 1..Len(scaled) : scaled[e].flow = "test" /\ scaled[e].applied = X_test
    /\ Len(X_test) >= 2

----------------------------------------------------------------------------
(* The bootstrap loop run by workers: every iteration i is run once, by any
   worker, in any order, with random_state = seed + i; the FPR tuples are
   collected in the order in which the iterations complete *)

\* number of workers
NumWorkers == 2

\* the notebook's seed and a pipeline that predicts both classes
InitPar == InitBootWith("par_cell", {1337}, {1})

\* the iterations that some worker has taken
Taken == {it \in 0..(n_resamples - 1) : ResampleSeed(boot_seed, it) \in Range(seeds_used)}

ParStart ==
    /\ pc = "par_cell"
    /\ boot_seed' = random_state
    /\ fprs' = <<>>
    /\ loop_i' = 0
    /\ seeds_used' = <<>>
    /\ runs' = runs + 1
    /\ prev_fprs' = fprs
    /\ workers' = {}
    /\ pc' = "par_loop"
    /\ UNCHANGED <<notBoot, evalVars, n_resamples, np_random, ciVars>>

\* the seeds s with rs added, in ascending order (which worker asked first
\* is not recorded)
RECURSIVE InsertSeed(_, _)
InsertSeed(s, rs) ==
    IF s = <<>> THEN <<rs>>
    ELSE IF rs <= Head(s) THEN <<rs>> \o s
    ELSE <<Head(s)>> \o InsertSeed(Tail(s), rs)

\* a free worker takes an iteration nobody has taken; workers holds the
\* iterations in progress
WorkerTake ==
    /\ pc = "par_loop"
    /\ Cardinality(workers) < NumWorkers
    /\ \E it \in (0..(n_resamples - 1)) \ Taken :
          /\ workers' = workers \cup {it}
          /\ seeds_used' = InsertSeed(seeds_used, ResampleSeed(boot_seed, it))
    /\ UNCHANGED <<pc, notBoot, evalVars, boot_seed, n_resamples, loop_i, fprs, runs,
                   prev_fprs, np_random, ciVars>>

\* a worker completes the loop body of its iteration: fprs.append(fpr)
WorkerAppend ==
    /\ pc = "par_loop"
    /\ \E it \in workers :
          LET body == LoopBody(it, np_random)
          IN /\ fprs' = Append(fprs, body.fpr)
             /\ np_random' = body.g
             /\ workers' = workers \ {it}
    /\ loop_i' = loop_i + 1
    /\ UNCHANGED <<pc, notBoot, evalVars, boot_seed, n_resamples, seeds_used,
                   runs, prev_fprs, ciVars>>

\* every iteration has completed
ParEnd ==
    /\ pc = "par_loop"
    /\ loop_i = n_resamples
    /\ pc' = "unpack"
    /\ UNCHANGED <<notBoot, bootVars>>

NextPar == ParStart \/ WorkerTake \/ WorkerAppend \/ ParEnd \/ Unpack \/ NotebookCall
              \/ PrintEstimate

SpecPar == InitPar /\ [][NextPar]_vars

\* the f1-scores of the sequential execution 0, 1, ..., n_resamples - 1
SequentialF1s == [j \in 1..n_resamples |-> LoopBody(j - 1, np_random).fpr.f1]

\* the collected scores are the sequential ones in some order
SameScores == Sort(f1s) = Sort(SequentialF1s)

\* distance within which two rounded means of the same n scores in [0, 1] lie:
\* n roundings of at most n * 2^-MantissaBits / 2 each, divided by n, in both
MeanTolerance == Frac(2 * n_resamples, Pow2(MantissaBits))

\* C10: when the iterations are run by workers in any interleaving and
\* completion order, iteration i with seed + i, the percentile interval of
\* the collected scores equals that of the sequential execution, and so does
\* their mean in real arithmetic; the mean np.mean computes is within
\* MeanTolerance of the sequential one.
C10_IntervalOrderIndependent ==
    pc = "done" =>
        /\ SameScores
        /\ limits = PercentileInterval(SequentialF1s, arg_alpha)
        /\ ExactMean(f1s) = ExactMean(SequentialF1s)
        /\ LET diff == RSub(Mean(f1s), Mean(SequentialF1s))
           IN RLe(<<Abs(diff[1]), diff[2]>>, MeanTolerance)

\* C10 (as claimed): the mean estimate np.mean computes and the percentile
\* interval of the collected scores both equal those of the sequential
\* execution.
C10_Original ==
    pc = "done" =>
        /\ Mean(f1s) = Mean(SequentialF1s)
        /\ limits = PercentileInterval(SequentialF1s, arg_alpha)

\* workers have collected the scores in another order than the sequential
\* one, and the interval has been computed
C10_Witness ==
    /\ pc = "done"
    /\ Len(f1s) >= 3
    /\ f1s # SequentialF1s
    /\ limits[1] # limits[2]

====
